---- MODULE Spec2Model ----
(***************************************************************************)
(* Model of package kafkametrics (kafkametrics.go): the tag extractor      *)
(* (valFromTags, tagValFromScope), the series-to-broker mapper             *)
(* (brokersFromSeries), the host-tag fetcher (getHostTagMap), the          *)
(* reconciler (populateFromTagMap) and the orchestrator (GetMetrics).      *)
(*                                                                         *)
(* A Go string is a sequence of symbols.  ":" and "," are the two          *)
(* delimiter characters the code looks at; every other symbol stands for   *)
(* a run of characters that holds neither of them ("broker_id", "3",       *)
(* "m5.xlarge").  A *Broker is a reference into the heap `brokers`.        *)
(***************************************************************************)
EXTENDS Integers, Sequences, FiniteSets, TLC

VARIABLES
    pc,           \* position of the running operation
    tags, key,    \* arguments of valFromTags / tagValFromScope
    val,          \* value returned by the tag extractor
    calls,        \* backend calls issued so far, in order
    o,            \* []dd.Series returned by QueryMetrics
    blist,        \* []*Broker returned by brokersFromSeries
    brokers,      \* heap: *Broker -> Broker struct
    t,            \* map[*Broker][]string
    todo,         \* keys of t the range loop has not visited yet
    bm,           \* BrokerMetrics: map[int]*Broker
    missingTags,  \* chunks written to the missingTags buffer
    ret           \* value returned by the operation

vars == <<pc, tags, key, val, calls, o, blist, brokers, t, todo, bm,
          missingTags, ret>>

\* ------------------------------------------------------------------ bounds
MaxTagLen == 4
MaxTagList == 2
MaxBrokers == 2
MaxHostTags == 2
MaxSeries == 2
MaxPoints == 2

Nil == "nil"
Str(s) == <<s>>
EmptyMap == [k \in {} |-> Nil]

SeqsUpTo(S, n) == UNION {[1..m -> S] : m \in 0..n}

\* ---------------------------------------------------------- package strings
RECURSIVE Flatten(_)
Flatten(ss) == IF ss = <<>> THEN <<>> ELSE Head(ss) \o Flatten(Tail(ss))

HasPrefix(s, prefix) ==
    /\ Len(prefix) <= Len(s)
    /\ SubSeq(s, 1, Len(prefix)) = prefix

IndexOf(s, c) ==
    IF \E i \in 1..Len(s) : s[i] = c
    THEN CHOOSE i \in 1..Len(s) : s[i] = c /\ \A j \in 1..(i - 1) : s[j] # c
    ELSE 0

\* strings.Split(s, sep) for a one-character separator: never empty, the
\* pieces hold no separator.
RECURSIVE Split(_, _)
Split(s, sep) ==
    LET i == IndexOf(s, sep)
    IN IF i = 0 THEN <<s>>
       ELSE <<SubSeq(s, 1, i - 1)>> \o Split(SubSeq(s, i + 1, Len(s)), sep)

Contains(s, sub) ==
    \E i \in 0..(Len(s) - Len(sub)) : SubSeq(s, i + 1, i + Len(sub)) = sub

\* ---------------------------------------------------------- package strconv
Digits == {"0", "1", "2", "3", "4", "5", "6", "7", "8", "9"}
DigitVal(c) == CHOOSE n \in 0..9 : ToString(n) = c

RECURSIVE Decimal(_)
Decimal(s) == IF s = <<>> THEN 0
              ELSE Decimal(SubSeq(s, 1, Len(s) - 1)) * 10 + DigitVal(s[Len(s)])

\* id, _ := strconv.Atoi(ids): the error is dropped, so a value that is not
\* an optionally signed run of digits yields 0.
Atoi(s) ==
    LET signed == s # <<>> /\ s[1] \in {"+", "-"}
        body   == IF signed THEN Tail(s) ELSE s
    IN IF body = <<>> \/ \E i \in 1..Len(body) : body[i] \notin Digits
       THEN 0
       ELSE IF signed /\ s[1] = "-" THEN 0 - Decimal(body) ELSE Decimal(body)

\* ------------------------------------------------------------ tag extractor
FirstMatch(tagList, k) ==
    IF \E i \in 1..Len(tagList) : HasPrefix(tagList[i], k \o <<":">>)
    THEN CHOOSE i \in 1..Len(tagList) :
            /\ HasPrefix(tagList[i], k \o <<":">>)
            /\ \A j \in 1..(i - 1) : ~HasPrefix(tagList[j], k \o <<":">>)
    ELSE 0

valFromTags(tagList, k) ==
    LET i == FirstMatch(tagList, k)
        v == IF i = 0 THEN <<>> ELSE Split(tagList[i], ":")
    IN IF Len(v) > 1 THEN v[2] ELSE <<>>

tagValFromScope(scope, tag) == valFromTags(Split(scope, ","), tag)

\* ------------------------------------------------------------------ errors
NoError == [kind |-> "nil", request |-> <<>>, err |-> <<>>]
APIError(request, err) == [kind |-> "APIError", request |-> request, err |-> err]
PartialResults(err) == [kind |-> "PartialResults", request |-> <<>>, err |-> err]

\* (e *APIError) Error() and (e *PartialResults) Error()
ErrorText(e) ==
    IF e.kind = "APIError"
    THEN <<"API error [">> \o e.request \o <<"]: ">> \o e.err
    ELSE e.err

\* ------------------------------------------------------------------ Broker
Broker(host, netTX) ==
    [ID |-> 0, Host |-> host, InstanceType |-> <<>>, NetTX |-> netTX]

MapPut(m, k, v) == [x \in (DOMAIN m) \cup {k} |-> IF x = k THEN v ELSE m[x]]

\* configuration of the handler
brokerIDTag == Str("broker_id")
netTXQuery == Str("avg:system.net.bytes_sent{service:kafka}.rollup(avg, 60)")
InstanceTypeTag == Str("instance-type")

\* ------------------------------------------------------- populateFromTagMap
\* The state of one pass: the heap, the receiver bm, the missingTags buffer,
\* and whether the pass has panicked.
PassState(heap, m, missing) ==
    [brokers |-> heap, bm |-> m, missingTags |-> missing, fault |-> FALSE]

\* insertBroker without the assignment b.ID = id
insertBrokerKeepID(st, b, id) == [st EXCEPT !.bm = MapPut(st.bm, id, b)]

\* b.ID = id; bm[id] = b
insertBroker(st, b, id) ==
    [st EXCEPT !.brokers[b].ID = id, !.bm = MapPut(st.bm, id, b)]

\* missingTags.WriteString(fmt.Sprintf(" %s:%s", name, b.Host))
writeMissing(st, name, b) ==
    [st EXCEPT !.missingTags =
        Append(@, <<" ">> \o name \o <<":">> \o st.brokers[b].Host)]

\* bm[b.ID].InstanceType = it: the index expression yields the nil *Broker
\* when b.ID is no key of bm, and the store through it panics.
setInstanceType(st, b, it) ==
    LET k == st.brokers[b].ID
    IN IF k \in DOMAIN st.bm
       THEN [st EXCEPT !.brokers[st.bm[k]].InstanceType = it]
       ELSE [st EXCEPT !.fault = TRUE]

\* One iteration of the range loop, for key b with value ht.
populateBody(st, b, ht, btag) ==
    LET ids == valFromTags(ht, btag)
        s1  == IF ids # <<>>
               THEN insertBroker(st, b, Atoi(ids))
               ELSE writeMissing(st, btag, b)
        it  == valFromTags(ht, InstanceTypeTag)
    IN IF it # <<>>
       THEN setInstanceType(s1, b, it)
       ELSE writeMissing(s1, Str("instance_type"), b)

\* populateResult without the test for an empty buffer
populateResultAlways(missing) ==
    PartialResults(<<"Host tags missing for: ">> \o Flatten(missing))

\* The error populateFromTagMap returns once the loop has ended.
populateResult(missing) ==
    IF Flatten(missing) # <<>>
    THEN PartialResults(<<"Host tags missing for: ">> \o Flatten(missing))
    ELSE NoError

\* The whole pass when the range loop visits the keys in the given order; a
\* panic ends it at once.
RECURSIVE runPass(_, _, _, _)
runPass(st, order, tm, btag) ==
    IF order = <<>> \/ st.fault THEN st
    ELSE runPass(populateBody(st, Head(order), tm[Head(order)], btag),
                 Tail(order), tm, btag)

Orders(S) == {p \in [1..Cardinality(S) -> S] :
                 \A i, j \in 1..Cardinality(S) : p[i] = p[j] => i = j}

\* ------------------------------------------------------------- input sets
\* the host name of the b-th broker of an input: "broker-1", "broker-2", ...
HostOf(b) == Str("broker-" \o ToString(b))
TagPool == { <<"broker_id", ":", "3">>,
             <<"broker_id", ":", "x">>,
             <<"instance-type", ":", "m5.xlarge">> }
HostTagLists == SeqsUpTo(TagPool, MaxHostTags)

NoReturn == [ok |-> FALSE, bm |-> EmptyMap, err |-> NoError]

\* ---------------------------------------------- specification SpecPopulate
\* populateFromTagMap called, as brokerMetricsFromList calls it, on an empty
\* BrokerMetrics with a map from fresh brokers to their host tags.
InitPopulate ==
    /\ pc = "populate"
    /\ \E n \in 0..MaxBrokers :
          /\ brokers = [b \in 1..n |-> Broker(HostOf(b), 100)]
          /\ t \in [1..n -> HostTagLists]
          /\ todo = 1..n
          /\ blist = [b \in 1..n |-> b]
    /\ bm = EmptyMap
    /\ missingTags = <<>>
    /\ ret = NoReturn
    /\ tags = <<>> /\ key = <<>> /\ val = <<>>
    /\ calls = <<>> /\ o = <<>>

PopulateBroker(b) ==
    /\ pc = "populate"
    /\ b \in todo
    /\ LET st == populateBody(PassState(brokers, bm, missingTags),
                              b, t[b], brokerIDTag)
       IN /\ brokers' = st.brokers
          /\ bm' = st.bm
          /\ missingTags' = st.missingTags
          /\ pc' = IF st.fault THEN "fault" ELSE "populate"
    /\ todo' = todo \ {b}
    /\ UNCHANGED <<tags, key, val, calls, o, blist, t, ret>>

PopulateReturn ==
    /\ pc = "populate"
    /\ todo = {}
    /\ ret' = [ok |-> FALSE, bm |-> EmptyMap, err |-> populateResult(missingTags)]
    /\ pc' = "returned"
    /\ UNCHANGED <<tags, key, val, calls, o, blist, brokers, t, todo, bm,
                   missingTags>>

NextPopulate == (\E b \in DOMAIN t : PopulateBroker(b)) \/ PopulateReturn

SpecPopulate == InitPopulate /\ [][NextPopulate]_vars

\* ------------------------------------------- properties of populateFromTagMap
HasID(b) == valFromTags(t[b], brokerIDTag) # <<>>
HasInstanceType(b) == valFromTags(t[b], InstanceTypeTag) # <<>>
ParsedID(b) == Atoi(valFromTags(t[b], brokerIDTag))
PassEnded == pc \in {"returned", "fault"}
ReportText == ErrorText(ret.err)

\* C1: the pass never faults, whatever tags are present; with the single
\* broker "broker-1" and host tags ["instance-type:m5.xlarge"] it returns an
\* empty BrokerMetrics and an error naming the identity tag and "broker-1".
C1_NeverFaults ==
    /\ pc # "fault"
    /\ ( /\ PassEnded
         /\ DOMAIN t = {1}
         /\ brokers[1].Host = Str("broker-1")
         /\ t[1] = << <<"instance-type", ":", "m5.xlarge">> >> )
       => /\ pc = "returned"
          /\ bm = EmptyMap
          /\ ret.err.kind = "PartialResults"
          /\ Contains(ReportText, brokerIDTag)
          /\ Contains(ReportText, Str("broker-1"))

\* C2: on every input in which some broker lacks the identity tag the pass
\* returns; that broker is no value of BrokerMetrics, the error is a
\* partial-results error naming its host, and every broker with the identity
\* tag is the entry under its parsed identity.
C2_MissingIdentity ==
    (PassEnded /\ \E b \in DOMAIN t : ~HasID(b)) =>
        /\ pc = "returned"
        /\ \A b \in DOMAIN t :
              /\ ~HasID(b) => /\ \A k \in DOMAIN bm : bm[k] # b
                              /\ ret.err.kind = "PartialResults"
                              /\ Contains(ReportText, brokers[b].Host)
              /\ HasID(b) => /\ ParsedID(b) \in DOMAIN bm
                             /\ bm[ParsedID(b)] = b

AllTagged == \A b \in DOMAIN t : HasID(b) /\ HasInstanceType(b)
DistinctIDs == \A b, c \in DOMAIN t : ParsedID(b) = ParsedID(c) => b = c

\* C3 as stated: when every broker has both tags, no error is returned and
\* BrokerMetrics has one entry per input broker, keyed by its parsed identity.
C3_AsStated ==
    (pc = "returned" /\ AllTagged) =>
        /\ ret.err = NoError
        /\ Cardinality(DOMAIN bm) = Cardinality(DOMAIN t)
        /\ \A b \in DOMAIN t : ParsedID(b) \in DOMAIN bm /\ bm[ParsedID(b)] = b

\* C3 amended: when every broker has both tags, no error is returned and
\* BrokerMetrics has one entry per distinct parsed identity, each holding an
\* input broker with that parsed identity; it has one entry per input broker
\* when the parsed identities are pairwise distinct.
C3_Amended ==
    (PassEnded /\ AllTagged) =>
        /\ pc = "returned"
        /\ ret.err = NoError
        /\ DOMAIN bm = {ParsedID(b) : b \in DOMAIN t}
        /\ \A k \in DOMAIN bm : bm[k] \in DOMAIN t /\ ParsedID(bm[k]) = k
        /\ DistinctIDs =>
              /\ Cardinality(DOMAIN bm) = Cardinality(DOMAIN t)
              /\ \A b \in DOMAIN t : bm[ParsedID(b)] = b

C3_Witness ==
    /\ pc = "returned"
    /\ AllTagged
    /\ Cardinality(DOMAIN t) = 2
    /\ Cardinality(DOMAIN bm) = 1
    /\ \A b \in DOMAIN t : brokers[b].InstanceType # <<>>

\* C4: in every state during and after a pass, every entry of BrokerMetrics
\* maps its key k to an existing Broker whose ID is k.
C4_KeyIsID ==
    \A k \in DOMAIN bm : bm[k] \in DOMAIN brokers /\ brokers[bm[k]].ID = k

C4_Witness ==
    /\ pc = "populate"
    /\ todo # {}
    /\ DOMAIN bm = {3}
    /\ brokers[bm[3]].ID = 3

\* The outcome of a pass: whether it faulted, whether it returned an error,
\* and the set of missing-tag descriptions written to the report.
Outcome(st) ==
    [fault   |-> st.fault,
     error   |-> ~st.fault /\ populateResult(st.missingTags) # NoError,
     missing |-> {st.missingTags[i] : i \in 1..Len(st.missingTags)}]

FreshHeap == [b \in DOMAIN brokers |-> Broker(brokers[b].Host, brokers[b].NetTX)]

\* C9: for a fixed input every iteration order of the pass yields the same
\* outcome kind (fault or return, error or none) and the same set of
\* missing-tag descriptions as the pass that ran.
C9_OrderIndependent ==
    PassEnded =>
        \A order \in Orders(DOMAIN t) :
            LET other == Outcome(runPass(PassState(FreshHeap, EmptyMap, <<>>),
                                         order, t, brokerIDTag))
            IN /\ other.fault = (pc = "fault")
               /\ pc = "returned" =>
                     /\ other.error = (ret.err # NoError)
                     /\ other.missing =
                            {missingTags[i] : i \in 1..Len(missingTags)}

\* C10: after the pass every entry's InstanceType is the instance-type value
\* of that broker's own tags (empty if it has none); a broker without the
\* identity tag changes no entry of another broker.
C10_OwnInstanceType ==
    pc = "returned" =>
        \A k \in DOMAIN bm :
            brokers[bm[k]].InstanceType = valFromTags(t[bm[k]], InstanceTypeTag)

\* --------------------------------------------------- specification SpecTags
\* The tag extractor applied to every list of at most MaxTagList tags of at
\* most MaxTagLen symbols.
TagAlphabet == {"k", ":"}
TagStrings == SeqsUpTo(TagAlphabet, MaxTagLen)
Keys == {Str("k"), <<"k", "k">>}

RECURSIVE Join(_, _)
Join(ss, sep) ==
    IF ss = <<>> THEN <<>>
    ELSE IF Len(ss) = 1 THEN ss[1]
    ELSE ss[1] \o <<sep>> \o Join(Tail(ss), sep)

InitTags ==
    /\ pc = "call"
    /\ tags \in SeqsUpTo(TagStrings, MaxTagList)
    /\ key \in Keys
    /\ val = <<>>
    /\ calls = <<>> /\ o = <<>> /\ blist = <<>> /\ brokers = <<>>
    /\ t = EmptyMap /\ todo = {} /\ bm = EmptyMap /\ missingTags = <<>>
    /\ ret = NoReturn

ValFromTags ==
    /\ pc = "call"
    /\ val' = valFromTags(tags, key)
    /\ pc' = "valFromTags"
    /\ UNCHANGED <<tags, key, calls, o, blist, brokers, t, todo, bm,
                   missingTags, ret>>

\* tagValFromScope on the scope that lists the tags separated by commas
TagValFromScope ==
    /\ pc = "call"
    /\ val' = tagValFromScope(Join(tags, ","), key)
    /\ pc' = "tagValFromScope"
    /\ UNCHANGED <<tags, key, calls, o, blist, brokers, t, todo, bm,
                   missingTags, ret>>

NextTags == ValFromTags \/ TagValFromScope

SpecTags == InitTags /\ [][NextTags]_vars

\* C7: valFromTags yields the empty string when no tag starts with "key:",
\* and otherwise everything after the "key:" prefix of the first tag that
\* starts with it.
C7_ValueAfterPrefix ==
    pc = "valFromTags" =>
        LET matching == {i \in 1..Len(tags) : HasPrefix(tags[i], key \o <<":">>)}
        IN IF matching = {} THEN val = <<>>
           ELSE LET i == CHOOSE i \in matching : \A j \in matching : i <= j
                IN val = SubSeq(tags[i], Len(key) + 2, Len(tags[i]))

\* -------------------------------------------------------- brokersFromSeries
\* seriesNetTX reading the last point of the series
seriesNetTXLast(ts) == (ts.points[Len(ts.points)][2] \div 1024) \div 1024

\* *ts.Points[0][1] / 1024 / 1024
seriesNetTX(ts) == (ts.points[1][2] \div 1024) \div 1024

\* The []*Broker and the error brokersFromSeries returns; the i-th struct is
\* the one the i-th pointer of the slice refers to.
brokersFromSeries(s) ==
    LET empty == {i \in 1..Len(s) : Len(s[i].points) = 0}
    IN IF empty # {}
       THEN LET i == CHOOSE i \in empty : \A j \in empty : i <= j
            IN [bs  |-> <<>>,
                err |-> PartialResults(<<"no points for host ">> \o
                            tagValFromScope(s[i].scope, Str("host")))]
       ELSE [bs  |-> [i \in 1..Len(s) |->
                        Broker(tagValFromScope(s[i].scope, Str("host")),
                               seriesNetTX(s[i]))],
             err |-> NoError]

\* ------------------------------------------------------------ getHostTagMap
\* afterHostTags going on with the next broker when the request failed
afterHostTagsIgnoreError(ok, i, n) == IF i = n THEN "populate" ELSE "hosttags"

\* Where getHostTagMap goes after the request for the i-th of n brokers.
afterHostTags(ok, i, n) ==
    IF ~ok THEN "done" ELSE IF i = n THEN "populate" ELSE "hosttags"

hostTagsError(host) ==
    APIError(Str("host tags"), <<"Error requesting host tags for ">> \o host)

\* --------------------------------------------------------- backend answers
\* The points of a series: values in bytes, whole numbers of MiB.
PointValues == <<104857600, 2097152, 3145728, 4194304>>
PointLists == {[i \in 1..n |-> <<i, PointValues[i]>>] : n \in 0..MaxPoints}
Scopes == { <<"host", ":", "broker-1">>,
            <<"role", ":", "kafka", ",", "host", ":", "broker-2">> }
SeriesSet == [scope : Scopes, points : PointLists]
QueryAnswers ==
    {[ok |-> FALSE, series |-> <<>>]} \cup
    {[ok |-> TRUE, series |-> s] : s \in SeqsUpTo(SeriesSet, MaxSeries)}
\* The host tags the metadata source answers with: none, both tags, either
\* tag alone, an identity that is no number, and a repeated identity tag.
AnswerTagLists ==
    { <<>>,
      << <<"broker_id", ":", "3">>, <<"instance-type", ":", "m5.xlarge">> >>,
      << <<"instance-type", ":", "m5.xlarge">> >>,
      << <<"broker_id", ":", "3">> >>,
      << <<"instance-type", ":", "m5.xlarge">>, <<"broker_id", ":", "x">> >>,
      << <<"broker_id", ":", "7">>, <<"broker_id", ":", "3">>,
         <<"instance-type", ":", "m5.xlarge">> >> }
HostTagAnswers ==
    {[ok |-> FALSE, tags |-> <<>>]} \cup
    {[ok |-> TRUE, tags |-> ht] : ht \in AnswerTagLists}

\* ------------------------------------------------ specification Spec: GetMetrics
Init ==
    /\ pc = "query"
    /\ calls = <<>> /\ o = <<>> /\ blist = <<>> /\ brokers = <<>>
    /\ t = EmptyMap /\ todo = {} /\ bm = EmptyMap /\ missingTags = <<>>
    /\ ret = NoReturn
    /\ tags = <<>> /\ key = <<>> /\ val = <<>>

\* k.c.QueryMetrics and the two tests that follow it
QueryMetrics ==
    /\ pc = "query"
    /\ \E ans \in QueryAnswers :
          /\ calls' = Append(calls, [op |-> "QueryMetrics", arg |-> netTXQuery,
                                     ok |-> ans.ok])
          /\ IF ~ans.ok
             THEN /\ ret' = [ok |-> FALSE, bm |-> EmptyMap,
                             err |-> APIError(Str("metrics query"),
                                              Str("backend error"))]
                  /\ pc' = "done"
                  /\ o' = o
             ELSE IF Len(ans.series) = 0
             THEN /\ ret' = [ok |-> FALSE, bm |-> EmptyMap,
                             err |-> PartialResults(
                                 <<"No data returned with query ">> \o netTXQuery)]
                  /\ pc' = "done"
                  /\ o' = ans.series
             ELSE /\ ret' = ret
                  /\ pc' = "series"
                  /\ o' = ans.series
    /\ UNCHANGED <<tags, key, val, blist, brokers, t, todo, bm, missingTags>>

\* blist, err := brokersFromSeries(o)
BrokersFromSeries ==
    /\ pc = "series"
    /\ LET r == brokersFromSeries(o)
       IN IF r.err # NoError
          THEN /\ ret' = [ok |-> FALSE, bm |-> EmptyMap, err |-> r.err]
               /\ pc' = "done"
               /\ UNCHANGED <<brokers, blist>>
          ELSE /\ brokers' = r.bs
               /\ blist' = [i \in 1..Len(r.bs) |-> i]
               /\ pc' = "hosttags"
               /\ ret' = ret
    /\ UNCHANGED <<tags, key, val, calls, o, t, todo, bm, missingTags>>

\* One iteration of the loop of getHostTagMap: the map holds one entry per
\* iteration that has completed.
GetHostTags ==
    /\ pc = "hosttags"
    /\ LET i == Cardinality(DOMAIN t) + 1
           b == blist[i]
       IN \E ans \in HostTagAnswers :
             /\ calls' = Append(calls, [op |-> "GetHostTags",
                                        arg |-> brokers[b].Host, ok |-> ans.ok])
             /\ pc' = afterHostTags(ans.ok, i, Len(blist))
             /\ IF ans.ok
                THEN /\ t' = MapPut(t, b, ans.tags)
                     /\ ret' = ret
                ELSE /\ t' = t
                     /\ ret' = IF pc' = "done"
                               THEN [ok |-> FALSE, bm |-> EmptyMap,
                                     err |-> hostTagsError(brokers[b].Host)]
                               ELSE ret
    /\ UNCHANGED <<tags, key, val, o, blist, brokers, todo, bm, missingTags>>

\* brokers := BrokerMetrics{}; err = brokers.populateFromTagMap(tags,
\* k.brokerIDTag), the range loop taking some order, and the return of
\* brokerMetricsFromList and GetMetrics.
Reconcile ==
    /\ pc = "populate"
    /\ \E order \in Orders(DOMAIN t) :
          LET st == runPass(PassState(brokers, EmptyMap, <<>>), order, t,
                            brokerIDTag)
              e  == populateResult(st.missingTags)
          IN /\ brokers' = st.brokers
             /\ bm' = st.bm
             /\ missingTags' = st.missingTags
             /\ IF st.fault
                THEN pc' = "fault" /\ ret' = ret
                ELSE /\ pc' = "done"
                     /\ ret' = IF e # NoError
                               THEN [ok |-> FALSE, bm |-> EmptyMap, err |-> e]
                               ELSE [ok |-> TRUE, bm |-> st.bm, err |-> NoError]
    /\ UNCHANGED <<tags, key, val, calls, o, blist, t, todo>>

Next == QueryMetrics \/ BrokersFromSeries \/ GetHostTags \/ Reconcile

Spec == Init /\ [][Next]_vars

\* ------------------------------------------------- properties of GetMetrics
HostTagCalls == {i \in 1..Len(calls) : calls[i].op = "GetHostTags"}
SeriesHost(i) == tagValFromScope(o[i].scope, Str("host"))
Untouched ==
    /\ bm = EmptyMap
    /\ missingTags = <<>>
    /\ \A b \in DOMAIN brokers :
          brokers[b].ID = 0 /\ brokers[b].InstanceType = <<>>

\* C5: the series query is the first backend call; host tags are requested
\* only after a successful query that returned at least one series, each
\* with at least one point; they are requested one per broker in series
\* order; a failed host-tag request is the last backend call, reconciliation
\* has not run, and GetMetrics returns an API error naming "host tags" and
\* that host, with no BrokerMetrics.
C5_BackendCallOrder ==
    /\ \A i \in 1..Len(calls) : (calls[i].op = "QueryMetrics") <=> (i = 1)
    /\ HostTagCalls # {} =>
          /\ calls[1].ok
          /\ Len(o) >= 1
          /\ \A j \in 1..Len(o) : Len(o[j].points) >= 1
    /\ Len(calls) <= 1 + Len(o)
    /\ \A i \in HostTagCalls :
          /\ calls[i].arg = SeriesHost(i - 1)
          /\ i < Len(calls) => calls[i].ok
    /\ pc \in {"populate", "fault"} \/ ret.ok =>
          /\ Len(calls) = 1 + Len(o)
          /\ \A i \in 1..Len(calls) : calls[i].ok
    /\ (HostTagCalls # {} /\ ~calls[Len(calls)].ok) =>
          /\ pc = "done"
          /\ Untouched
          /\ ~ret.ok
          /\ ret.err.kind = "APIError"
          /\ ret.err.request = Str("host tags")
          /\ Contains(ErrorText(ret.err), Str("host tags"))
          /\ Contains(ErrorText(ret.err), calls[Len(calls)].arg)

C5_Witness ==
    /\ pc = "done"
    /\ Len(calls) = 3
    /\ calls[2].ok
    /\ ~calls[3].ok
    /\ calls[2].arg # calls[3].arg

\* C6: when every series has a point, brokersFromSeries yields one Broker per
\* series, in series order, with the host of the series scope and the first
\* point's value divided by 1024 twice; when some series has no point it
\* fails with a partial-results error naming the host of the first such
\* series and yields no Broker at all.
C6_SeriesToBrokers ==
    (Len(o) > 0 /\ pc # "series") =>
        IF \A i \in 1..Len(o) : Len(o[i].points) >= 1
        THEN /\ Len(blist) = Len(o)
             /\ \A i \in 1..Len(o) :
                   /\ brokers[blist[i]].Host = SeriesHost(i)
                   /\ brokers[blist[i]].NetTX * 1024 * 1024 = o[i].points[1][2]
                   /\ \A j \in 1..Len(o) : blist[i] = blist[j] => i = j
        ELSE LET i == CHOOSE i \in 1..Len(o) :
                        /\ Len(o[i].points) = 0
                        /\ \A j \in 1..(i - 1) : Len(o[j].points) >= 1
             IN /\ pc = "done"
                /\ ret.err.kind = "PartialResults"
                /\ Contains(ErrorText(ret.err), SeriesHost(i))
                /\ ~ret.ok
                /\ blist = <<>>
                /\ brokers = <<>>

C6_Witness ==
    /\ pc = "hosttags"
    /\ Len(o) = 2
    /\ Len(o[1].points) = 2
    /\ SeriesHost(1) # SeriesHost(2)
    /\ brokers[blist[2]].NetTX = 100

C6_WitnessNoPoints ==
    /\ pc = "done"
    /\ Len(o) = 2
    /\ Len(o[1].points) >= 1
    /\ Len(o[2].points) = 0

\* C8: GetMetrics returns an API error exactly when a backend call failed, a
\* partial-results error exactly when every call issued succeeded and the
\* data is incomplete (no series, a series without points, a broker without
\* the identity or the instance-type tag), a BrokerMetrics and no error in
\* every other case, and never a BrokerMetrics together with an error.
CallFailed == \E i \in 1..Len(calls) : ~calls[i].ok
Incomplete ==
    \/ Len(o) = 0
    \/ \E i \in 1..Len(o) : Len(o[i].points) = 0
    \/ \E b \in DOMAIN t : ~HasID(b) \/ ~HasInstanceType(b)

C8_ErrorKinds ==
    pc \in {"done", "fault"} =>
        /\ (ret.err.kind = "APIError") <=> CallFailed
        /\ (ret.err.kind = "PartialResults") <=> (~CallFailed /\ Incomplete)
        /\ (ret.ok /\ ret.err = NoError) <=> (~CallFailed /\ ~Incomplete)
        /\ ~(ret.ok /\ ret.err # NoError)

====
